---- MODULE Spec2Model ----
(***************************************************************************)
(* makeepub: the line classifier (parseLine), the driver loop of main and  *)
(* the chapter ordering and section assembly of novel.toEpub.              *)
(*                                                                         *)
(* A line is a sequence of runes.  A rune is written as a short ASCII      *)
(* token:                                                                  *)
(*   LQ  U+300A left double angle bracket    RQ  U+300B right one          *)
(*   SP  ASCII space   TAB  ASCII tab        ISP U+3000 ideographic space  *)
(*   DI  U+7B2C (chapter marker)             ZHANG U+7AE0 (chapter suffix) *)
(*   FAN U+756A, WAI U+5916, FCOLON U+FF1A   (the extra-chapter pattern)   *)
(*   HYPHEN ASCII '-', ZUO U+4F5C, ZHE U+8005 (the author separator)       *)
(*   "0".."9" ASCII digits;  c0..c9 the glyphs U+96F6, U+4E00, ... U+4E5D; *)
(*   shi, bai, qian, wan the magnitude words; "a", "b" any other letters.  *)
(***************************************************************************)
EXTENDS Integers, Sequences, FiniteSets

VARIABLES pc, novel, lastStat, nread, line, statIn, before, epub, outFile

vars == <<pc, novel, lastStat, nread, line, statIn, before, epub, outFile>>

\* ------------------------------------------------------------ bounds

\* Lines the driver reads in one run of Spec.
MaxLines == 3

\* Chapter headers the driver reads in one run of SortSpec.
MaxParas == 7

\* ------------------------------------------------------------- runes

ArabicDigits == {"0", "1", "2", "3", "4", "5", "6", "7", "8", "9"}

ChineseDigits == {"c0", "c1", "c2", "c3", "c4", "c5", "c6", "c7", "c8", "c9"}

Magnitudes == {"shi", "bai", "qian", "wan"}

isArabic(ch) == ch \in ArabicDigits

isDigit(ch) == ch \in ArabicDigits \cup ChineseDigits \cup Magnitudes

ArabicValue(ch) ==
    CASE ch = "0" -> 0 [] ch = "1" -> 1 [] ch = "2" -> 2 [] ch = "3" -> 3
      [] ch = "4" -> 4 [] ch = "5" -> 5 [] ch = "6" -> 6 [] ch = "7" -> 7
      [] ch = "8" -> 8 [] ch = "9" -> 9

ArabicRune(d) ==
    CASE d = 0 -> "0" [] d = 1 -> "1" [] d = 2 -> "2" [] d = 3 -> "3"
      [] d = 4 -> "4" [] d = 5 -> "5" [] d = 6 -> "6" [] d = 7 -> "7"
      [] d = 8 -> "8" [] d = 9 -> "9"

ChineseValue(ch) ==
    CASE ch = "c0" -> 0 [] ch = "c1" -> 1 [] ch = "c2" -> 2 [] ch = "c3" -> 3
      [] ch = "c4" -> 4 [] ch = "c5" -> 5 [] ch = "c6" -> 6 [] ch = "c7" -> 7
      [] ch = "c8" -> 8 [] ch = "c9" -> 9

MagnitudeValue(ch) ==
    CASE ch = "shi" -> 10 [] ch = "bai" -> 100 [] ch = "qian" -> 1000
      [] ch = "wan" -> 10000

\* s[from..] of a Go slice expression, on a 1-based sequence.
Tail_(s, from) == SubSeq(s, from, Len(s))

Last(s) == s[Len(s)]

\* ------------------------------------------------- numeral conversion

\* Go's int on the usual 64-bit builds: IntLimbs limbs of 16 bits, the least
\* significant first.  Sums and products wrap around silently.
IntLimbs == 4

Limb == 2^16

IntOf(v) == [k \in 1..IntLimbs |-> IF k = 1 THEN v ELSE 0]

\* x * m + c for small m and c: the limbs of the result, then the carry out.
RECURSIVE MulAdd(_, _, _, _)
MulAdd(x, m, c, k) ==
    IF k > Len(x) THEN <<c>>
    ELSE LET t == x[k] * m + c IN <<t % Limb>> \o MulAdd(x, m, t \div Limb, k + 1)

\* x + y + c: the limbs of the result, then the carry out.
RECURSIVE AddLimbs(_, _, _, _)
AddLimbs(x, y, c, k) ==
    IF k > Len(x) THEN <<c>>
    ELSE LET t == x[k] + y[k] + c IN <<t % Limb>> \o AddLimbs(x, y, t \div Limb, k + 1)

Wrapped(r) == SubSeq(r, 1, IntLimbs)

CarryOut(r) == r[IntLimbs + 1]

\* The signed value of an int.  The ids of the inputs modelled here lie
\* within 32 bits; of any other value the two low limbs are read.
Signed(x) ==
    IF x[2] < Limb \div 2 THEN x[2] * Limb + x[1]
    ELSE (x[2] - Limb) * Limb + x[1]

\* strconv.Atoi on a run of digit-class runes: an error when a rune is not an
\* ASCII digit or the value does not fit an int, else the base-10 value.
RECURSIVE DecimalValue(_, _)
DecimalValue(s, acc) ==
    IF s = <<>>
    THEN [ok |-> acc[IntLimbs] < Limb \div 2, val |-> acc]
    ELSE LET r == MulAdd(acc, 10, ArabicValue(Head(s)), 1) IN
         IF CarryOut(r) # 0 THEN [ok |-> FALSE, val |-> acc]
         ELSE DecimalValue(Tail(s), Wrapped(r))

Atoi(s) ==
    IF \A k \in 1..Len(s) : isArabic(s[k])
    THEN LET v == DecimalValue(s, IntOf(0)) IN
         [ok |-> v.ok, val |-> IF v.ok THEN Signed(v.val) ELSE 0]
    ELSE [ok |-> FALSE, val |-> 0]

\* chinese_number.ParseChineseNumberCharacter followed by GetValue: the value
\* of a plain digit glyph; a magnitude word or any other rune is an error.
ParseChineseNumberCharacter(r) ==
    IF r \in ChineseDigits
    THEN [ok |-> TRUE, val |-> ChineseValue(r)]
    ELSE [ok |-> FALSE, val |-> 0]

\* No magnitude word seen yet in the current section of a compound numeral.
NoUnit == 100000

\* chinese_number.ToArabicNumber: the positional value of a well-formed
\* compound numeral (digit words combined with magnitude words), an error
\* otherwise.  cur is the pending digit (-1: none, -2: a filler zero).
RECURSIVE Compound(_, _, _, _, _, _)
Compound(s, k, total, section, cur, lastUnit) ==
    IF k > Len(s)
    THEN IF cur = -2 THEN [ok |-> FALSE, val |-> 0]
         ELSE [ok |-> TRUE,
               val |-> total + section + (IF cur >= 0 THEN cur ELSE 0)]
    ELSE LET ch == s[k] IN
      IF ch \in ArabicDigits THEN [ok |-> FALSE, val |-> 0]
      ELSE IF ch = "c0"
      THEN IF cur # -1 \/ (section = 0 /\ total = 0)
           THEN [ok |-> FALSE, val |-> 0]
           ELSE Compound(s, k + 1, total, section, -2, lastUnit)
      ELSE IF ch \in ChineseDigits
      THEN IF cur >= 0 THEN [ok |-> FALSE, val |-> 0]
           ELSE Compound(s, k + 1, total, section, ChineseValue(ch), lastUnit)
      ELSE IF ch = "wan"
      THEN LET sec == section + (IF cur >= 0 THEN cur ELSE 0) IN
           IF cur = -2 \/ sec = 0 \/ total # 0
           THEN [ok |-> FALSE, val |-> 0]
           ELSE Compound(s, k + 1, sec * 10000, 0, -1, NoUnit)
      ELSE LET u == MagnitudeValue(ch)
               d == IF cur >= 0 THEN cur
                    ELSE IF cur = -1 /\ u = 10 /\ section = 0 /\ lastUnit = NoUnit
                    THEN 1 ELSE 0
           IN IF d = 0 \/ u >= lastUnit THEN [ok |-> FALSE, val |-> 0]
              ELSE Compound(s, k + 1, total, section + d * u, -1, u)

ToArabicNumber(s) ==
    IF s = <<>> THEN [ok |-> FALSE, val |-> 0]
    ELSE IF s = <<"c0">> THEN [ok |-> TRUE, val |-> 0]
    ELSE Compound(s, 1, 0, 0, -1, NoUnit)

\* The digit-by-digit loop of the fallback path: id += altId[i] * factor and
\* factor *= 10 for i from the last digit down, starting from the id the
\* failed parse left; both wrap around at the width of int.
RECURSIVE AltIdSum(_, _, _, _)
AltIdSum(altId, i, factor, id) ==
    IF i < 1 THEN id
    ELSE AltIdSum(altId, i - 1,
                  Wrapped(MulAdd(factor, 10, 0, 1)),
                  Wrapped(AddLimbs(id, Wrapped(MulAdd(factor, altId[i], 0, 1)), 0, 1)))

\* ParseId with the fallback loop skipping the runes that are no digit glyphs
\* (continue) where it should give up (return true).
ParseId_SkipNonDigits(runeId, runEnd) ==
    IF isArabic(runeId[1])
    THEN LET a == Atoi(runeId) IN [ok |-> a.ok, id |-> a.val, i |-> runEnd]
    ELSE LET c == ToArabicNumber(runeId) IN
         IF c.ok THEN [ok |-> TRUE, id |-> c.val, i |-> runEnd]
         ELSE LET digits == SelectSeq(runeId, LAMBDA r : ParseChineseNumberCharacter(r).ok)
                  altId == [k \in 1..Len(digits) |->
                               ParseChineseNumberCharacter(digits[k]).val]
              IN [ok |-> TRUE,
                  id |-> Signed(AltIdSum(altId, Len(altId), IntOf(1), IntOf(c.val))),
                  i |-> -1]

\* The id of a digit run, and the value the scan index i of parseLine holds
\* afterwards (0-based): runEnd on the Arabic and compound paths, -1 after the
\* fallback loop, which counts its own positions down in the same variable.
ParseId(runeId, runEnd) ==
    IF isArabic(runeId[1])
    THEN LET a == Atoi(runeId) IN [ok |-> a.ok, id |-> a.val, i |-> runEnd]
    ELSE LET c == ToArabicNumber(runeId) IN
         IF c.ok THEN [ok |-> TRUE, id |-> c.val, i |-> runEnd]
         ELSE IF \E k \in 1..Len(runeId) : ~ParseChineseNumberCharacter(runeId[k]).ok
         THEN [ok |-> FALSE, id |-> 0, i |-> runEnd]
         ELSE LET altId == [k \in 1..Len(runeId) |->
                               ParseChineseNumberCharacter(runeId[k]).val]
              IN [ok |-> TRUE,
                  id |-> Signed(AltIdSum(altId, Len(altId), IntOf(1), IntOf(c.val))),
                  i |-> -1]

\* ------------------------------------------------------------ parseLine

\* What a call of parseLine does: the document afterwards, the returned
\* isUnknown, or a run-time panic (index or slice bounds out of range), which
\* ends the run before anything is returned.
Return(n, isUnknown) == [n |-> n, isUnknown |-> isUnknown, panic |-> FALSE]

Panics(n) == [n |-> n, isUnknown |-> FALSE, panic |-> TRUE]

newPara(id, title) == [id |-> id, title |-> title, lines |-> <<>>]

AuthorSeparator == <<"SP", "HYPHEN", "SP", "ZUO", "ZHE", "FCOLON">>

\* parseNovelHeader with the author taken one rune early (runeLine[i+6:]).
parseNovelHeader_AuthorOffByOne(runeLine, n) ==
    LET closing == {k \in 2..Len(runeLine) : runeLine[k] = "RQ"} IN
    IF closing = {} THEN Return(n, TRUE)
    ELSE LET k == CHOOSE x \in closing : \A y \in closing : x <= y
             title == SubSeq(runeLine, 2, k - 1)
             author == IF k - 1 <= Len(runeLine) - 7
                          /\ SubSeq(runeLine, k + 1, k + 6) = AuthorSeparator
                       THEN Tail_(runeLine, k + 6)
                       ELSE <<>>
         IN Return([n EXCEPT !.title = title, !.author = author], FALSE)

\* parseNovelHeader storing the title as it scans, before it knows that the
\* closing RQ exists.
parseNovelHeader_PartialTitle(runeLine, n) ==
    LET closing == {k \in 2..Len(runeLine) : runeLine[k] = "RQ"} IN
    IF closing = {} THEN Return([n EXCEPT !.title = Tail_(runeLine, 2)], TRUE)
    ELSE LET k == CHOOSE x \in closing : \A y \in closing : x <= y
             title == SubSeq(runeLine, 2, k - 1)
             author == IF k - 1 <= Len(runeLine) - 7
                          /\ SubSeq(runeLine, k + 1, k + 6) = AuthorSeparator
                       THEN Tail_(runeLine, k + 7)
                       ELSE <<>>
         IN Return([n EXCEPT !.title = title, !.author = author], FALSE)

\* parseNovelHeader leaving the author alone when the line names none.
parseNovelHeader_KeepAuthor(runeLine, n) ==
    LET closing == {k \in 2..Len(runeLine) : runeLine[k] = "RQ"} IN
    IF closing = {} THEN Return(n, TRUE)
    ELSE LET k == CHOOSE x \in closing : \A y \in closing : x <= y
             title == SubSeq(runeLine, 2, k - 1)
             author == IF k - 1 <= Len(runeLine) - 7
                          /\ SubSeq(runeLine, k + 1, k + 6) = AuthorSeparator
                       THEN Tail_(runeLine, k + 7)
                       ELSE n.author
         IN Return([n EXCEPT !.title = title, !.author = author], FALSE)

\* case LQ: the novel header.  k is the 1-based place of the first RQ (Go's
\* i + 1), 0 when there is none.
parseNovelHeader(runeLine, n) ==
    LET closing == {k \in 2..Len(runeLine) : runeLine[k] = "RQ"} IN
    IF closing = {} THEN Return(n, TRUE)
    ELSE LET k == CHOOSE x \in closing : \A y \in closing : x <= y
             title == SubSeq(runeLine, 2, k - 1)
             author == IF k - 1 <= Len(runeLine) - 7
                          /\ SubSeq(runeLine, k + 1, k + 6) = AuthorSeparator
                       THEN Tail_(runeLine, k + 7)
                       ELSE <<>>
         IN Return([n EXCEPT !.title = title, !.author = author], FALSE)

Whitespace == {"SP", "TAB", "ISP"}

\* The number of leading whitespace runes (Go's i after the loop of line 138).
LeadingSpace(runeLine) ==
    LET stops == {k \in 1..Len(runeLine) : runeLine[k] \notin Whitespace} IN
    IF stops = {} THEN Len(runeLine)
    ELSE (CHOOSE x \in stops : \A y \in stops : x <= y) - 1

\* parseContent without the test of lastStat.
parseContent_NoLookback(runeLine, n, stat) ==
    LET i == LeadingSpace(runeLine) IN
    IF i = Len(runeLine) THEN Return(n, FALSE)
    ELSE IF Len(n.paras) = 0 THEN Panics(n)
    ELSE Return([n EXCEPT !.paras[Len(n.paras)].lines =
                             Append(@, Tail_(runeLine, i + 1))], FALSE)

\* parseContent cutting the marker rune only, not the whitespace after it.
parseContent_StripOne(runeLine, n, stat) ==
    IF stat THEN Return(n, TRUE)
    ELSE LET i == LeadingSpace(runeLine) IN
         IF i = Len(runeLine) THEN Return(n, FALSE)
         ELSE IF Len(n.paras) = 0 THEN Panics(n)
         ELSE Return([n EXCEPT !.paras[Len(n.paras)].lines =
                                  Append(@, Tail_(runeLine, 2))], FALSE)

\* parseContent reporting a dropped line as recognized, which ends the wait
\* for the next header.
parseContent_DropResets(runeLine, n, stat) ==
    IF stat THEN Return(n, FALSE)
    ELSE LET i == LeadingSpace(runeLine) IN
         IF i = Len(runeLine) THEN Return(n, FALSE)
         ELSE IF Len(n.paras) = 0 THEN Panics(n)
         ELSE Return([n EXCEPT !.paras[Len(n.paras)].lines =
                                  Append(@, Tail_(runeLine, i + 1))], FALSE)

\* parseContent reporting a line of whitespace only as unrecognized.
parseContent_BlankUnknown(runeLine, n, stat) ==
    IF stat THEN Return(n, TRUE)
    ELSE LET i == LeadingSpace(runeLine) IN
         IF i = Len(runeLine) THEN Return(n, TRUE)
         ELSE IF Len(n.paras) = 0 THEN Panics(n)
         ELSE Return([n EXCEPT !.paras[Len(n.paras)].lines =
                                  Append(@, Tail_(runeLine, i + 1))], FALSE)

\* case SP, ISP: the content of a paragraph.
parseContent(runeLine, n, stat) ==
    IF stat THEN Return(n, TRUE)
    ELSE LET i == LeadingSpace(runeLine) IN
         IF i = Len(runeLine) THEN Return(n, FALSE)
         ELSE IF Len(n.paras) = 0 THEN Panics(n)
         ELSE Return([n EXCEPT !.paras[Len(n.paras)].lines =
                                  Append(@, Tail_(runeLine, i + 1))], FALSE)

\* The 0-based index at which the digit-run scan of line 150 stops: the first
\* rune after the marker that is not of the digit class, or len(runeLine).
RunEnd(runeLine) ==
    LET stops == {k \in 2..Len(runeLine) : ~isDigit(runeLine[k])} IN
    IF stops = {} THEN Len(runeLine)
    ELSE (CHOOSE x \in stops : \A y \in stops : x <= y) - 1

\* parseParaTitle putting the new chapter in the place of the first chapter
\* that has the same id.
parseParaTitle_ReplaceSameId(runeLine, n) ==
    LET i == RunEnd(runeLine)
        runeId == SubSeq(runeLine, 2, i)
    IN IF Len(runeId) = 0 THEN Return(n, TRUE)
       ELSE IF i >= Len(runeLine) THEN Panics(n)
       ELSE IF runeLine[i + 1] # "ZHANG" THEN Return(n, TRUE)
       ELSE LET num == ParseId(runeId, i) IN
            IF ~num.ok THEN Return(n, TRUE)
            ELSE IF num.i + 2 > Len(runeLine) THEN Panics(n)
            ELSE LET p == newPara(num.id, Tail_(runeLine, num.i + 3))
                     same == {k \in 1..Len(n.paras) : n.paras[k].id = num.id}
                 IN IF same = {}
                    THEN Return([n EXCEPT !.paras = Append(@, p)], FALSE)
                    ELSE Return([n EXCEPT !.paras[CHOOSE x \in same :
                                                    \A y \in same : x <= y] = p],
                                FALSE)

\* case DI: the title of a paragraph.
parseParaTitle(runeLine, n) ==
    LET i == RunEnd(runeLine)
        runeId == SubSeq(runeLine, 2, i)
    IN IF Len(runeId) = 0 THEN Return(n, TRUE)
       ELSE IF i >= Len(runeLine) THEN Panics(n)
       ELSE IF runeLine[i + 1] # "ZHANG" THEN Return(n, TRUE)
       ELSE LET num == ParseId(runeId, i) IN
            IF ~num.ok THEN Return(n, TRUE)
            ELSE IF num.i + 2 > Len(runeLine) THEN Panics(n)
            ELSE Return([n EXCEPT !.paras =
                            Append(@, newPara(num.id, Tail_(runeLine, num.i + 3)))],
                        FALSE)

ExtraPattern == <<"FAN", "WAI", "FCOLON">>

\* regexp "FAN WAI FCOLON (.*?)" MatchString: the pattern occurs somewhere.
MatchString(s) ==
    \E k \in 1..Len(s) : k + 2 <= Len(s) /\ SubSeq(s, k, k + 2) = ExtraPattern

\* parseDefault falling through to "return true" after the append.
parseDefault_ExtraUnknown(runeLine, n) ==
    IF MatchString(runeLine)
    THEN Return([n EXCEPT !.paras = Append(@, newPara(-1, runeLine))], TRUE)
    ELSE Return(n, TRUE)

\* default: an extra chapter, or an unknown line.
parseDefault(runeLine, n) ==
    IF MatchString(runeLine)
    THEN Return([n EXCEPT !.paras = Append(@, newPara(-1, runeLine))], FALSE)
    ELSE Return(n, TRUE)

parseLine(l, n, stat) ==
    IF Len(l) = 0 THEN Return(n, TRUE)
    ELSE CASE l[1] = "LQ" -> parseNovelHeader(l, n)
           [] l[1] \in {"SP", "ISP"} -> parseContent(l, n, stat)
           [] l[1] = "DI" -> parseParaTitle(l, n)
           [] OTHER -> parseDefault(l, n)

\* ---------------------------------------------------- paras, toEpub

Less(p, i, j) == p[i].id < p[j].id

\* Swap without the temporary: p[j] takes p[i], and p[i] keeps its value.
Swap_NoTmp(p, i, j) == [p EXCEPT ![j] = p[i]]

Swap(p, i, j) == [p EXCEPT ![j] = p[i], ![i] = p[j]]

\* sort.Sort(n.paras), through Len, Less and Swap, for slices of at most 12
\* elements (longer ones are not modelled).  Every toolchain sorts these by
\* insertion; the toolchains before the pattern-defeating quicksort first make
\* one pass that compares and swaps the elements six places apart.
RECURSIVE insertDown(_, _)
insertDown(p, j) ==
    IF j > 1 /\ Less(p, j, j - 1) THEN insertDown(Swap(p, j, j - 1), j - 1)
    ELSE p

RECURSIVE insertionSort(_, _)
insertionSort(p, i) ==
    IF i > Len(p) THEN p ELSE insertionSort(insertDown(p, i), i + 1)

RECURSIVE shellPass(_, _)
shellPass(p, i) ==
    IF i > Len(p) THEN p
    ELSE shellPass(IF Less(p, i, i - 6) THEN Swap(p, i, i - 6) ELSE p, i + 1)

SortImpls == {"pdqsort", "quickSort"}

Sort(impl, p) ==
    IF impl = "quickSort" THEN insertionSort(shellPass(p, 7), 2)
    ELSE insertionSort(p, 2)

\* fmt.Sprintf("%d", id).
RECURSIVE DecimalRunes(_)
DecimalRunes(v) ==
    IF v < 0 THEN <<"HYPHEN">> \o DecimalRunes(0 - v)
    ELSE IF v < 10 THEN <<ArabicRune(v)>>
    ELSE DecimalRunes(v \div 10) \o <<ArabicRune(v % 10)>>

\* paraHead.String.
String(h) ==
    IF h.id # -1 THEN DecimalRunes(h.id) \o <<"SP">> \o h.title
    ELSE h.title

RECURSIVE Paragraphs(_)
Paragraphs(lines) ==
    IF lines = <<>> THEN <<>>
    ELSE <<"<p>">> \o Head(lines) \o <<"</p>", "NL">> \o Paragraphs(Tail(lines))

\* One call of e.AddSection(sectionBody, heading, "", "").
Section(para) ==
    [title |-> String(para),
     body |-> <<"<h1>">> \o String(para) \o <<"</h1>", "NL", "<p>", "</p>", "NL">>
              \o Paragraphs(para.lines)]

Sections(p) == [k \in 1..Len(p) |-> Section(p[k])]

\* os.Args[1].
FileName == <<"f">>

NoEpub == [title |-> <<>>, author |-> <<>>, sections |-> <<>>, made |-> FALSE]

\* ---------------------------------------------------------------- main

Init ==
    /\ pc = "scan"
    /\ novel = [title |-> <<>>, author |-> <<>>, paras |-> <<>>]
    /\ lastStat = FALSE
    /\ nread = 0
    /\ line = <<>>
    /\ statIn = FALSE
    /\ before = novel
    /\ epub = NoEpub
    /\ outFile = <<>>

\* One turn of the scanner loop: lastStat = parseLine(line, &novel, lastStat).
\* line, statIn and before record the call's arguments.
ScanFrom(input, max) ==
    /\ pc = "scan"
    /\ nread < max
    /\ \E l \in input :
         LET r == parseLine(l, novel, lastStat) IN
         /\ line' = l
         /\ statIn' = lastStat
         /\ before' = novel
         /\ nread' = nread + 1
         /\ IF r.panic
            THEN pc' = "panic" /\ UNCHANGED <<novel, lastStat>>
            ELSE pc' = "scan" /\ novel' = r.n /\ lastStat' = r.isUnknown
    /\ UNCHANGED <<epub, outFile>>

\* The input ends and main calls novel.toEpub: the chapters are sorted in
\* place, the epub takes the title and author the document has now, and one
\* section is added per chapter; a section the packager refuses is fatal.
\* before records the document as parsing left it.
ToEpub ==
    /\ pc = "scan"
    /\ \E impl \in SortImpls, added \in BOOLEAN :
         LET sorted == Sort(impl, novel.paras) IN
         /\ added \/ Len(novel.paras) > 0
         /\ novel' = [novel EXCEPT !.paras = sorted]
         /\ IF added
            THEN /\ pc' = "converted"
                 /\ epub' = [title |-> novel.title, author |-> novel.author,
                             sections |-> Sections(sorted), made |-> TRUE]
            ELSE /\ pc' = "fatal"
                 /\ epub' = epub
    /\ before' = novel
    /\ line' = <<>>
    /\ statIn' = FALSE
    /\ UNCHANGED <<lastStat, nread, outFile>>

\* The rest of main: an empty title becomes the file name, and the epub is
\* written to title + ".epub"; a failed write is fatal.
WriteEpub ==
    /\ pc = "converted"
    /\ novel' = [novel EXCEPT !.title = IF @ = <<>> THEN FileName ELSE @]
    /\ \E written \in BOOLEAN :
         IF written
         THEN pc' = "done" /\ outFile' = novel'.title \o <<".epub">>
         ELSE pc' = "fatal" /\ outFile' = outFile
    /\ UNCHANGED <<lastStat, nread, line, statIn, before, epub>>

\* ---------------------------------------------------------- the input

TitleLines ==
    { <<"LQ", "a", "RQ">>,
      <<"LQ", "a", "b", "RQ", "SP", "HYPHEN", "SP", "ZUO", "ZHE", "FCOLON", "b">>,
      <<"LQ", "b", "RQ", "SP", "HYPHEN", "SP", "ZUO", "ZHE", "FCOLON">>,
      <<"LQ", "b", "RQ", "RQ", "SP", "HYPHEN", "SP", "ZUO", "ZHE", "FCOLON", "a">>,
      <<"LQ", "RQ", "SP", "HYPHEN", "SP", "ZUO", "ZHE">>,
      <<"LQ", "a">> }

BodyLines ==
    { <<"SP", "a">>,
      <<"ISP", "TAB", "SP", "b", "SP">>,
      <<"SP">>,
      <<"ISP", "TAB">> }

ChapterLines ==
    { <<"DI", "1", "ZHANG", "SP", "a">>,
      <<"DI", "1", "2", "ZHANG", "a", "b">>,
      <<"DI", "shi", "c2", "ZHANG", "SP", "a">>,
      <<"DI", "c1", "c2", "ZHANG", "SP", "a">>,
      <<"DI", "c1", "c2", "ZHANG">>,
      <<"DI", "c1", "c2", "c3", "ZHANG", "SP", "b">>,
      <<"DI", "c1", "8", "ZHANG", "SP", "a">>,
      <<"DI", "c1", "c8", "c4", "c4", "c6", "c7", "c4", "c4", "c0", "c7",
        "c3", "c7", "c0", "c9", "c5", "c5", "c1", "c6", "c1", "c5",
        "ZHANG", "SP", "a">>,
      <<"DI", "2", "ZHANG", "SP">>,
      <<"DI", "2", "ZHANG">>,
      <<"DI", "1", "2">>,
      <<"DI", "ZHANG", "SP", "a">>,
      <<"DI">>,
      <<"DI", "1", "a">>,
      <<"DI", "1", "c2", "ZHANG", "SP", "a">>,
      <<"DI", "c1", "shi", "shi", "ZHANG", "SP", "a">>,
      <<"DI", "c1", "a", "ZHANG", "SP", "a">> }

OtherLines ==
    { <<"FAN", "WAI", "FCOLON", "a">>,
      <<"FAN", "WAI", "FCOLON">>,
      <<"a", "FAN", "WAI", "FCOLON", "b">>,
      <<"FAN", "WAI", "a">>,
      <<"a", "b">>,
      <<"TAB", "a">>,
      <<>> }

Lines == TitleLines \cup BodyLines \cup ChapterLines \cup OtherLines

\* Inputs of chapter headers only, for the ordering of many chapters.
HeaderLines ==
    { <<"DI", "1", "ZHANG", "SP", "a">>,
      <<"DI", "2", "ZHANG", "SP", "a">>,
      <<"DI", "2", "ZHANG", "SP", "b">>,
      <<"FAN", "WAI", "FCOLON", "a">> }

Scan == ScanFrom(Lines, MaxLines)

ScanHeaders == ScanFrom(HeaderLines, MaxParas)

Next == Scan \/ ToEpub \/ WriteEpub

Spec == Init /\ [][Next]_vars

SortNext == ScanHeaders \/ ToEpub \/ WriteEpub

SortSpec == Init /\ [][SortNext]_vars

\* ------------------------------------------------------------- claims

\* The most recent step was a call of parseLine, which returned (Returned) or
\* panicked; line, statIn and before are its arguments.
Classified == nread > 0 /\ pc \in {"scan", "panic"}

Returned == nread > 0 /\ pc = "scan"

Unchanged == novel = before

IsBodyMarker(l) == Len(l) > 0 /\ l[1] \in {"SP", "ISP"}

HasPrefix(s, p) == Len(s) >= Len(p) /\ SubSeq(s, 1, Len(p)) = p

\* The digit run after the chapter marker, and what follows it, read off the
\* line rune by rune.
DigitRunLen(l) ==
    Cardinality({k \in 2..Len(l) : \A j \in 2..k : isDigit(l[j])})

AfterRun(l) == Tail_(l, DigitRunLen(l) + 2)

\* C1: a body-marker line with text after its leading whitespace, classified
\* with the lookback flag false while the document has no chapter, does not
\* crash, is reported recognized and records nothing.
C1_OrphanedContentDropped ==
    (Classified /\ IsBodyMarker(line) /\ ~statIn /\ before.paras = <<>>
       /\ \E k \in 1..Len(line) : line[k] \notin Whitespace)
    => (pc = "scan" /\ lastStat = FALSE /\ Unchanged)

\* C2: a line that begins with the chapter marker and whose digit run is
\* empty, or is not followed by the suffix marker (also when nothing follows
\* it), is reported unrecognized and leaves the document unchanged.
C2_MalformedHeaderUnrecognized ==
    (Classified /\ Len(line) > 0 /\ line[1] = "DI"
       /\ (DigitRunLen(line) = 0 \/ ~HasPrefix(AfterRun(line), <<"ZHANG">>)))
    => (pc = "scan" /\ lastStat = TRUE /\ Unchanged)

\* C3: no call of parseLine aborts the run, whatever lines are fed.
C3_NoCallAborts == pc # "panic"

\* C4, as claimed: classifying a line that begins with the extra-chapter
\* pattern returns isUnknown = true, so the lookback flag is true afterwards.
C4_ExtraReportsUnrecognized ==
    (Classified /\ HasPrefix(line, ExtraPattern)) => (pc = "scan" /\ lastStat = TRUE)

\* C4, amended: classifying a line that begins with the extra-chapter pattern
\* appends one chapter with id -1 and returns isUnknown = false, so the
\* lookback flag is false for the next line.
C4_ExtraReportsRecognized ==
    (Classified /\ HasPrefix(line, ExtraPattern))
    => (/\ pc = "scan"
        /\ lastStat = FALSE
        /\ Len(novel.paras) = Len(before.paras) + 1
        /\ Last(novel.paras).id = -1)

\* An extra-chapter line with text after the pattern has been classified as
\* the second chapter of the document.
C4_Witness ==
    /\ Returned
    /\ HasPrefix(line, ExtraPattern)
    /\ Len(line) > Len(ExtraPattern)
    /\ Len(novel.paras) = 2

\* The chapters of p in ascending id order, those of one id in the order
\* they have in p.
RECURSIVE StableById(_, _)
StableById(p, ids) ==
    IF ids = {} THEN <<>>
    ELSE LET m == CHOOSE x \in ids : \A y \in ids : x <= y IN
         SelectSeq(p, LAMBDA c : c.id = m) \o StableById(p, ids \ {m})

IdsOf(p) == {p[k].id : k \in 1..Len(p)}

\* C5: the sections handed to the packager are the parsed chapters in
\* ascending id order, chapters of the same id in the order of their
\* appending.
C5_OrderingStable ==
    pc = "converted"
    => epub.sections = Sections(StableById(before.paras, IdsOf(before.paras)))

Count(x, p) == Cardinality({k \in 1..Len(p) : p[k] = x})

SectionsOf(p) == {Section(p[k]) : k \in 1..Len(p)}

C7_SuppressedAfterUnrecognized ==
    (Classified /\ statIn /\ IsBodyMarker(line))
    => (pc = "scan" /\ lastStat = TRUE /\ Unchanged)

\* A body line with text has been classified right after an unrecognized
\* line while a chapter exists.
C7_Witness ==
    /\ Returned
    /\ statIn
    /\ line = <<"SP", "a">>
    /\ Len(novel.paras) > 0

\* C8: a non-empty line whose first rune is none of LQ, SP, ISP, DI and which
\* does not begin with the extra-chapter pattern is reported unrecognized and
\* changes nothing.
C8_FallbackUnrecognized ==
    (Classified /\ Len(line) > 0 /\ line[1] \notin {"LQ", "SP", "ISP", "DI"}
       /\ ~HasPrefix(line, ExtraPattern))
    => (pc = "scan" /\ lastStat = TRUE /\ Unchanged)

\* C9: the chapter appended by a recognized chapter header has as its title
\* the text two runes past the end of the digit run.
C9_TitleTwoPastRun ==
    (Returned /\ Len(line) > 0 /\ line[1] = "DI" /\ lastStat = FALSE)
    => (/\ Len(novel.paras) = Len(before.paras) + 1
        /\ Last(novel.paras).title = Tail_(AfterRun(line), 3))

\* C10: a line that begins with LQ and holds an RQ sets the title to the
\* runes strictly between LQ and the first RQ, the author to what follows the
\* separator when the separator comes right after that RQ and to the empty
\* string otherwise, and is reported recognized.
C10_TitleAuthor ==
    (Classified /\ Len(line) > 0 /\ line[1] = "LQ"
       /\ \E k \in 2..Len(line) : line[k] = "RQ")
    => \E k \in 2..Len(line) :
         /\ line[k] = "RQ"
         /\ \A j \in 2..(k - 1) : line[j] # "RQ"
         /\ pc = "scan"
         /\ lastStat = FALSE
         /\ novel.title = SubSeq(line, 2, k - 1)
         /\ novel.author = IF HasPrefix(Tail_(line, k + 1), AuthorSeparator)
                           THEN Tail_(line, k + 1 + Len(AuthorSeparator))
                           ELSE <<>>

\* A title header with a two-rune title and an author has been classified.
C10_Witness ==
    /\ Returned
    /\ line = <<"LQ", "a", "b", "RQ", "SP", "HYPHEN", "SP", "ZUO", "ZHE", "FCOLON", "b">>
    /\ novel.title = <<"a", "b">>
    /\ novel.author = <<"b">>

DigitRun(l) == SubSeq(l, 2, DigitRunLen(l) + 1)

\* A line made of the chapter marker, a non-empty digit run and the suffix
\* marker, whatever follows.
IsChapterHeader(l) ==
    Len(l) > 0 /\ l[1] = "DI" /\ DigitRunLen(l) > 0 /\ HasPrefix(AfterRun(l), <<"ZHANG">>)

\* The line was recognized and its chapter is the last of the document.
Recognized == Returned /\ lastStat = FALSE

RECURSIVE StripZeros(_)
StripZeros(s) ==
    IF Len(s) > 1 /\ Head(s) = "0" THEN StripZeros(Tail(s)) ELSE s

\* A run of plain digit glyphs written with ASCII digits.
AsArabic(run) == [k \in 1..Len(run) |-> ArabicRune(ChineseValue(run[k]))]

\* C11: the id of a recognized chapter header is the value of its digit run:
\* written in decimal it is the run itself for ASCII digits (a run with a
\* later non-ASCII digit is rejected) and for a run of plain digit glyphs the
\* compound parse rejects; a compound numeral has its positional value.
C11_IdIsRunValue ==
    (Classified /\ IsChapterHeader(line))
    => LET run == DigitRun(line)
           c == ToArabicNumber(run)
       IN IF isArabic(run[1])
          THEN IF \E k \in 1..Len(run) : ~isArabic(run[k])
               THEN pc = "scan" /\ lastStat = TRUE /\ Unchanged
               ELSE Recognized => DecimalRunes(Last(novel.paras).id) = StripZeros(run)
          ELSE IF c.ok
          THEN Recognized => /\ Last(novel.paras).id = c.val
                             /\ run = <<"shi", "c2">> => Last(novel.paras).id = 12
          ELSE (\A k \in 1..Len(run) : run[k] \in ChineseDigits)
               => /\ Recognized
                  /\ DecimalRunes(Last(novel.paras).id) = StripZeros(AsArabic(run))

C13_PackagerTitleNotEmpty ==
    (epub.made /\ before.title = <<>>) => epub.title # <<>>

\* The chapter the last call appended came from the default case (an extra
\* chapter), not from a chapter header.
AppendedExtra == Recognized /\ line[1] \notin {"LQ", "SP", "ISP", "DI"}

AppendedHeader == Recognized /\ line[1] = "DI"

\* C14: a chapter made by a chapter header has an id >= 0 and the heading
\* "<id> <title>"; a chapter made by an extra-chapter line has the id -1 and
\* its title as heading.
C14_ExtraIffMinusOne ==
    /\ AppendedHeader
       => /\ Last(novel.paras).id >= 0
          /\ Section(Last(novel.paras)).title =
               DecimalRunes(Last(novel.paras).id) \o <<"SP">> \o Last(novel.paras).title
    /\ AppendedExtra
       => /\ Last(novel.paras).id = -1
          /\ Section(Last(novel.paras)).title = Last(novel.paras).title

\* C15: a call that returns isUnknown = true leaves title, author, the
\* chapter sequence and every chapter's body lines as they were.
C15_UnrecognizedChangesNothing ==
    (Returned /\ lastStat = TRUE)
    => (/\ novel.title = before.title
        /\ novel.author = before.author
        /\ Len(novel.paras) = Len(before.paras)
        /\ \A k \in 1..Len(before.paras) : novel.paras[k] = before.paras[k])

\* A title header without its closing RQ has been reported unrecognized in a
\* document that has a title and a chapter.
C15_Witness ==
    /\ Returned
    /\ lastStat = TRUE
    /\ line = <<"LQ", "a">>
    /\ novel.title = <<"b">>
    /\ Len(novel.paras) = 1

IsTitleHeader(l) ==
    Len(l) > 0 /\ l[1] = "LQ" /\ \E k \in 2..Len(l) : l[k] = "RQ"

\* The runes of l before its first RQ, and those after it.
RECURSIVE UpToRQ(_)
UpToRQ(l) == IF Head(l) = "RQ" THEN <<>> ELSE <<Head(l)>> \o UpToRQ(Tail(l))

RECURSIVE PastRQ(_)
PastRQ(l) == IF Head(l) = "RQ" THEN Tail(l) ELSE PastRQ(Tail(l))

\* C16: a well-formed title header overwrites title and author with what it
\* carries (an empty author when it names none), and no other line changes
\* either, so both are those of the most recent well-formed title header.
C16_TitleAuthorFromLatestHeader ==
    Classified
    => IF IsTitleHeader(line)
       THEN /\ novel.title = UpToRQ(Tail(line))
            /\ novel.author = IF HasPrefix(PastRQ(line), AuthorSeparator)
                              THEN Tail_(PastRQ(line), Len(AuthorSeparator) + 1)
                              ELSE <<>>
       ELSE novel.title = before.title /\ novel.author = before.author

\* A title header without author has replaced a title and an author.
C16_Witness ==
    /\ Returned
    /\ line = <<"LQ", "a", "RQ">>
    /\ before.title = <<"a", "b">>
    /\ before.author = <<"b">>
    /\ novel.title = <<"a">>
    /\ novel.author = <<>>

\* l without its leading whitespace runes.
RECURSIVE StripLeading(_)
StripLeading(l) ==
    IF l = <<>> THEN <<>>
    ELSE IF Head(l) \in Whitespace THEN StripLeading(Tail(l))
    ELSE l

HasText(l) == \E k \in 1..Len(l) : l[k] \notin Whitespace

\* C17: a body-marker line with text, classified with the lookback flag false
\* while a chapter exists, is recognized and adds the line without its
\* leading whitespace as the last body line of the last chapter; nothing
\* else of the document changes.
C17_BodyLineAppendedToLastChapter ==
    (Classified /\ IsBodyMarker(line) /\ ~statIn /\ HasText(line)
       /\ Len(before.paras) > 0)
    => (/\ pc = "scan"
        /\ lastStat = FALSE
        /\ novel = [before EXCEPT !.paras[Len(before.paras)].lines =
                                      Append(@, StripLeading(line))])

\* A body line behind three whitespace runes has been added to the second of
\* two chapters.
C17_Witness ==
    /\ Returned
    /\ ~statIn
    /\ line = <<"ISP", "TAB", "SP", "b", "SP">>
    /\ Len(novel.paras) = 2
    /\ novel.paras[1].lines = <<>>
    /\ novel.paras[2].lines = <<<<"b", "SP">>>>

\* C18: while the lookback flag is set, the next line, if it is a
\* body-marker line, is reported unrecognized and keeps the flag set and the
\* document as it is; a zero-length line sets the flag; and no line read
\* while the flag is set changes the body of a chapter.
C18_SuppressionPersists ==
    [][(nread' = nread + 1)
       => /\ (lastStat /\ IsBodyMarker(line'))
             => (pc' = "scan" /\ lastStat' /\ novel' = novel)
          /\ (line' = <<>>) => (pc' = "scan" /\ lastStat' /\ novel' = novel)
          /\ lastStat
             => \A k \in 1..Len(novel.paras) :
                   /\ k <= Len(novel'.paras)
                   /\ novel'.paras[k].lines = novel.paras[k].lines]_vars

\* A chapter header, a blank line and a body line have been read, and the
\* body line is lost to the chapter.
C18_Witness ==
    /\ nread = 3
    /\ Returned
    /\ statIn
    /\ lastStat = TRUE
    /\ line = <<"ISP", "TAB", "SP", "b", "SP">>
    /\ Len(novel.paras) = 1
    /\ novel.paras[1].lines = <<>>

\* C19: a body-marker line of whitespace only changes nothing and is
\* reported recognized when the lookback flag is false and unrecognized when
\* it is true, with or without a chapter.
C19_BlankBodyLine ==
    (Classified /\ IsBodyMarker(line) /\ ~HasText(line))
    => (pc = "scan" /\ Unchanged /\ lastStat = statIn)

\* A line of whitespace only has been recognized in a document without
\* chapters.
C19_Witness ==
    /\ Returned
    /\ ~statIn
    /\ lastStat = FALSE
    /\ line = <<"ISP", "TAB">>
    /\ novel.paras = <<>>

\* C20: no call of parseLine removes, reorders or renames a chapter; a
\* recognized chapter header and a recognized line of the default branch
\* (every line that begins with the extra-chapter pattern is one) append one
\* chapter with an empty body and change nothing else; the chapter of the
\* default branch has id -1 and the whole line as its title.
C20_ParasAppendOnly ==
    Classified
    => /\ Len(novel.paras) \in {Len(before.paras), Len(before.paras) + 1}
       /\ \A k \in 1..Len(before.paras) :
             /\ novel.paras[k].id = before.paras[k].id
             /\ novel.paras[k].title = before.paras[k].title
       /\ HasPrefix(line, ExtraPattern) => Recognized
       /\ (Recognized /\ line[1] \notin {"LQ", "SP", "ISP"})
          => /\ novel = [before EXCEPT !.paras = Append(@, Last(novel.paras))]
             /\ Last(novel.paras).lines = <<>>
             /\ line[1] # "DI" => /\ Last(novel.paras).id = -1
                                  /\ Last(novel.paras).title = line

\* A second chapter with the id of the first has been appended behind it.
C20_Witness ==
    /\ Recognized
    /\ line = <<"DI", "1", "ZHANG", "SP", "a">>
    /\ Len(novel.paras) = 2
    /\ novel.paras[1].id = 1
    /\ novel.paras[1].lines # <<>>
    /\ novel.paras[2].id = 1

====
